---- MODULE Spec2Model ----
(***************************************************************************)
(* A model of pywavesurfer/ws.py: the PyWaveSurferData reader over a       *)
(* WaveSurfer HDF5 container.                                              *)
(*                                                                         *)
(* Conventions.                                                            *)
(*  - A node name is a sequence of one-character strings, so that the      *)
(*    slices name[0:5] and name[6:] and the parsers int() and float() are  *)
(*    computed on characters as the code computes them.                    *)
(*  - A Python dict is a function; "k in d" is k \in DOMAIN d.             *)
(*  - A call that can raise returns [err |-> e, val |-> v]; err = NoErr    *)
(*    means it returned v.                                                 *)
(*  - The container is the input: the variable "file" is drawn in Init     *)
(*    and never changes (the reader opens it read-only).                   *)
(***************************************************************************)
EXTENDS Integers, Sequences, FiniteSets, TLC

VARIABLES
    file,                        \* the container on disk (input)
    pc,                          \* "start" | "ready" | "failed" | "done"
    handle,                      \* self.file: "none" | "open" | "closed"
    releases,                    \* how many times close() ran on the handle
    in_with,                     \* inside a with-block on the reader
    data_file_as_dict,           \* self.data_file_as_dict
    analog_channel_scales,       \* self.analog_channel_scales
    analog_scaling_coefficients, \* self.analog_scaling_coefficients
    n_a_i_channels,              \* self.n_a_i_channels
    version_path,                \* what the Version Corrector did
    op,                          \* the last call made
    err,                         \* what the last call raised (NoErr if nothing)
    ret                          \* what the last call returned

vars == <<file, pc, handle, releases, in_with, data_file_as_dict,
          analog_channel_scales, analog_scaling_coefficients, n_a_i_channels,
          version_path, op, err, ret>>

(***************************************************************************)
(* Bounds of the model.                                                    *)
(***************************************************************************)
MaxSeg == 3        \* segments per file, and the largest segment index
MaxNameLen == 3    \* length of the free node names given to the normalizer
MaxMinorLen == 3   \* digits of a version component
MaxChannels == 2   \* analog input channels

(***************************************************************************)
(* Program constants.                                                      *)
(***************************************************************************)
TimebaseHz == 100000000        \* 100.0e6
LatestVersionMilli == 982      \* _latest_version = 0.982, in thousandths

(***************************************************************************)
(* Errors and results.                                                     *)
(***************************************************************************)
Err(t, m) == [type |-> t, msg |-> m]
NoErr == Err("", "")
Ok(v) == [err |-> NoErr, val |-> v]
Raise(t, m) == [err |-> Err(t, m), val |-> <<>>]

None == [none |-> TRUE]
EmptyDict == [k \in {} |-> 0]
Put(d, k, v) == [x \in (DOMAIN d) \cup {k} |-> IF x = k THEN v ELSE d[x]]

Min(a, b) == IF a < b THEN a ELSE b
Max(a, b) == IF a > b THEN a ELSE b

(***************************************************************************)
(* Python sequence primitives.                                             *)
(***************************************************************************)
\* s[a:b] for 0 <= a, with b clipped to len(s)
PySlice(s, a, b) == SubSeq(s, a + 1, Min(b, Len(s)))
\* s[a:]
PyTail(s, a) == SubSeq(s, a + 1, Len(s))
\* s[i]: negative i counts from the end; out of range raises IndexError
PyIndex(s, i) ==
    IF i >= 0 /\ i < Len(s) THEN Ok(s[i + 1])
    ELSE IF i < 0 /\ i >= 0 - Len(s) THEN Ok(s[Len(s) + i + 1])
    ELSE Raise("IndexError", "list index out of range")

Digits == <<"0", "1", "2", "3", "4", "5", "6", "7", "8", "9">>
IsDigit(c) == \E d \in 1..10 : Digits[d] = c
DigitVal(c) == (CHOOSE d \in 1..10 : Digits[d] = c) - 1
AllDigits(s) == \A i \in 1..Len(s) : IsDigit(s[i])

RECURSIVE DigitsValue(_)
DigitsValue(s) ==
    IF Len(s) = 0 THEN 0
    ELSE 10 * DigitsValue(SubSeq(s, 1, Len(s) - 1)) + DigitVal(s[Len(s)])

\* int(s) on a string of the model's alphabet: decimal digits or ValueError
PyInt(s) ==
    IF Len(s) > 0 /\ AllDigits(s) THEN Ok(DigitsValue(s))
    ELSE Raise("ValueError", "invalid literal for int()")

\* str(n) for n >= 0: the decimal digits, no leading zeros
RECURSIVE PyStr(_)
PyStr(n) ==
    IF n < 10 THEN <<Digits[n + 1]>>
    ELSE PyStr(n \div 10) \o <<Digits[(n % 10) + 1]>>

(***************************************************************************)
(* Name Normalizer: field_name_from_hdf_name.                              *)
(***************************************************************************)
Inf == <<"i", "n", "f">>
Nan == <<"n", "a", "n">>
DotCount(s) == Cardinality({i \in 1..Len(s) : s[i] = "."})
DotPos(s) == CHOOSE i \in 1..Len(s) : s[i] = "."

\* float(s): "number", "inf", "nan", or ValueError.  On the model's alphabet
\* a number is digits with at most one point and at least one digit.
IsDecimal(s) ==
    /\ \A i \in 1..Len(s) : IsDigit(s[i]) \/ s[i] = "."
    /\ DotCount(s) <= 1
    /\ \E i \in 1..Len(s) : IsDigit(s[i])
PyFloatKind(s) ==
    IF s = Inf THEN "inf"
    ELSE IF s = Nan THEN "nan"
    ELSE IF IsDecimal(s) THEN "number"
    ELSE "ValueError"

\* x == round(x) for the finite float a decimal string denotes: every digit
\* after the point is zero
IsIntegerValued(s) ==
    IF DotCount(s) = 0 THEN TRUE
    ELSE \A i \in (DotPos(s) + 1)..Len(s) : s[i] = "0"

\* format(value, spec) of a str: the spec is [[fill]align][width][.precision][s];
\* the only specs the program uses are "" (not in this file) and "%s"
PyFormatStr(value, spec) ==
    IF spec = "" \/ spec = "s" THEN Ok(value)
    ELSE Raise("ValueError", "Invalid format specifier")

\* "n{:%s}".format(hdf_name): the formatted field after the literal "n"
AfterLiteralN(f) == IF f.err = NoErr THEN Ok(<<"n">> \o f.val) ELSE f
FormatFieldName(hdf_name) == AfterLiteralN(PyFormatStr(hdf_name, "%s"))

\* RuntimeError("...{:%s}".format(hdf_name)): the message is formatted first
RaiseNotConvertible(m) ==
    IF m.err = NoErr
    THEN Raise("RuntimeError", "Unable to convert group/dataset name to a valid field name.")
    ELSE m

\* the body of the try block, lines 112-118, given what float() made of the name
FieldNameOfKind(hdf_name, kind) ==
    IF kind = "ValueError" THEN Raise("ValueError", "could not convert string to float")
    ELSE IF kind = "inf" THEN Raise("OverflowError", "cannot convert float infinity to integer")
    ELSE IF kind = "nan" THEN Raise("ValueError", "cannot convert float NaN to integer")
    ELSE IF IsIntegerValued(hdf_name) THEN FormatFieldName(hdf_name)
    ELSE RaiseNotConvertible(PyFormatStr(hdf_name, "%s"))
FieldNameTry(hdf_name) == FieldNameOfKind(hdf_name, PyFloatKind(hdf_name))

\* the except clause, lines 119-122: a ValueError of the try block is caught
CatchValueError(t, hdf_name) == IF t.err.type = "ValueError" THEN Ok(hdf_name) ELSE t

field_name_from_hdf_name(hdf_name) == CatchValueError(FieldNameTry(hdf_name), hdf_name)

(***************************************************************************)
(* Metadata Crawler: recursive_crawl_h5_group on the root group.           *)
(* The root holds the "header" group and the nodes file.nodes, each        *)
(* [name, kind, channels, samples]: a "sweep" group holds one dataset      *)
(* "analogScans" (channels x samples), a "trial" dataset is channels x     *)
(* samples, any other group is empty.  The names inside "header" are       *)
(* identifiers, which the normalizer returns unchanged.                    *)
(***************************************************************************)
sweep == <<"s", "w", "e", "e", "p">>
trial == <<"t", "r", "i", "a", "l">>
analogScans == <<"a", "n", "a", "l", "o", "g", "S", "c", "a", "n", "s">>

\* the children of a group node
GroupChildren(node) == IF PySlice(node.name, 0, 5) = sweep THEN <<analogScans>> ELSE <<>>

\* lines 97-100: a dataset is normalized, then stored unless it is named
\* "analogScans" or starts with "trial"
StoreDataset(acc, fn, name) ==
    IF fn.err # NoErr THEN fn
    ELSE IF name # analogScans /\ PySlice(name, 0, 5) # trial
         THEN Ok(Put(acc.val, fn.val, [dataset |-> name]))
         ELSE acc

\* recursive_crawl_h5_group on a group below the root: its only child, if
\* any, is the dataset "analogScans"
CrawlSubGroup(node) ==
    IF GroupChildren(node) = <<>> THEN Ok(EmptyDict)
    ELSE StoreDataset(Ok(EmptyDict), field_name_from_hdf_name(analogScans), analogScans)

\* lines 94-96: a group is normalized, then crawled and stored
StoreGroup(acc, fn, sub) ==
    IF fn.err # NoErr THEN fn
    ELSE IF sub.err # NoErr THEN sub
    ELSE Ok(Put(acc.val, fn.val, sub.val))

\* one iteration of the loop of lines 92-102 on the accumulated result acc
CrawlItem(acc, node) ==
    IF acc.err # NoErr THEN acc
    ELSE IF node.kind = "group"
         THEN StoreGroup(acc, field_name_from_hdf_name(node.name), CrawlSubGroup(node))
    ELSE IF node.kind = "dataset"
         THEN StoreDataset(acc, field_name_from_hdf_name(node.name), node.name)
    ELSE acc

RECURSIVE CrawlNodes(_, _)
CrawlNodes(acc, nodes) ==
    IF Len(nodes) = 0 THEN acc
    ELSE CrawlNodes(CrawlItem(acc, Head(nodes)), Tail(nodes))

\* the tree is [header |-> the crawled header group, top |-> the other keys]
WithHeader(t, header) ==
    IF t.err # NoErr THEN t ELSE Ok([header |-> header, top |-> t.val])
recursive_crawl_h5_group(f) == WithHeader(CrawlNodes(Ok(EmptyDict), f.nodes), f.header)

(***************************************************************************)
(* Version Corrector: fix_sampling_rate_for_older_versions.                *)
(* A version string is a sequence of characters; a sample rate is the      *)
(* rational [num, den], so that 100.0e6 / floor(ticks) is kept exactly.    *)
(***************************************************************************)
RECURSIVE SplitDots(_)
SplitDots(s) ==
    IF DotCount(s) = 0 THEN <<s>>
    ELSE <<SubSeq(s, 1, DotPos(s) - 1)>> \o SplitDots(SubSeq(s, DotPos(s) + 1, Len(s)))

\* packaging.version.parse on a dotted numeric version: the release tuple
parse_version(s) ==
    LET c == SplitDots(s)
    IN  IF \A i \in 1..Len(c) : Len(c[i]) > 0 /\ AllDigits(c[i])
        THEN Ok([i \in 1..Len(c) |-> DigitsValue(c[i])])
        ELSE Raise("InvalidVersion", "Invalid version")

ReleaseAt(r, i) == IF i <= Len(r) THEN r[i] ELSE 0
\* release a > release b, compared component by component, zero padded
ReleaseGreater(a, b) ==
    \E i \in 1..Max(Len(a), Len(b)) :
        /\ ReleaseAt(a, i) > ReleaseAt(b, i)
        /\ \A j \in 1..(i - 1) : ReleaseAt(a, j) = ReleaseAt(b, j)
\* parsed_version in SpecifierSet(">=1.0")
InOverVersion1(r) == ~ReleaseGreater(<<1, 0>>, r)
\* parse_version(str(_latest_version)).release
LatestRelease == <<0, LatestVersionMilli>>

RECURSIVE Pow10(_)
Pow10(n) == IF n = 0 THEN 1 ELSE 10 * Pow10(n - 1)

\* float(version) > _latest_version, for a decimal string
FloatGreaterThanLatest(s) ==
    LET c == SplitDots(s)
        ip == DigitsValue(c[1])
        fr == IF Len(c) = 2 THEN c[2] ELSE <<>>
    IN  \/ ip >= 1
        \/ DigitsValue(fr) * 1000 > LatestVersionMilli * Pow10(Len(fr))

\* the same with the last comparison strict: 0.912 is left uncorrected
LegacyMinorConditionStrict(version_string) ==
    LET ver_len == Len(version_string)
    IN  \/ DigitVal(version_string[1]) < 9
        \/ (ver_len >= 2 /\ DigitVal(version_string[2]) < 1)
        \/ (ver_len >= 3 /\ DigitVal(version_string[2]) <= 1
                         /\ DigitVal(version_string[3]) < 2)

\* the condition of lines 151-152 on version_string = str(release[1])
LegacyMinorCondition(version_string) ==
    LET ver_len == Len(version_string)
    IN  \/ DigitVal(version_string[1]) < 9
        \/ (ver_len >= 2 /\ DigitVal(version_string[2]) < 1)
        \/ (ver_len >= 3 /\ DigitVal(version_string[2]) <= 1
                         /\ DigitVal(version_string[3]) <= 2)

Rate(hz) == [num |-> hz, den |-> 1]
RateIsInteger(q) == q.num % q.den = 0
RateFloor(q) == q.num \div q.den
\* rounding with ties away from zero
RateRoundHalfUp(q) ==
    IF 2 * (q.num % q.den) < q.den THEN q.num \div q.den ELSE (q.num \div q.den) + 1

\* Python round(): to nearest, ties to even
RateRound(q) ==
    LET fl == q.num \div q.den
        r2 == 2 * (q.num % q.den)
    IN  IF r2 < q.den THEN fl
        ELSE IF r2 > q.den THEN fl + 1
        ELSE IF fl % 2 = 0 THEN fl ELSE fl + 1

\* lines 154-160 (mode "floor") and 163-168 (mode "round") on one rate
FixRate(nominal, mode) ==
    IF nominal.num = 0 THEN Raise("ZeroDivisionError", "float division by zero")
    ELSE LET ticks == [num |-> TimebaseHz * nominal.den, den |-> nominal.num]
             d == IF mode = "floor" THEN RateFloor(ticks) ELSE RateRound(ticks)
         IN  IF RateIsInteger(ticks) THEN Ok(nominal)
             ELSE IF d = 0 THEN Raise("ZeroDivisionError", "float division by zero")
             ELSE Ok([num |-> TimebaseHz, den |-> d])

SetRate(header, group, rate) ==
    [header EXCEPT ![group] = [@ EXCEPT !["SampleRate"] = rate]]

\* lines 154-161 and 163-169: a corrected rate is written back in place
StoreRate(tree, group, r) ==
    IF r.err # NoErr THEN r
    ELSE Ok([tree EXCEPT !.header = SetRate(tree.header, group, r.val)])
CorrectAcquisition(tree) ==
    StoreRate(tree, "Acquisition", FixRate(tree.header["Acquisition"]["SampleRate"], "floor"))
CorrectStimulation(t) ==
    IF t.err # NoErr THEN t
    ELSE StoreRate(t.val, "Stimulation",
                   FixRate(t.val.header["Stimulation"]["SampleRate"], "round"))

\* lines 153-169: the correction branch
CorrectRates(tree) == CorrectStimulation(CorrectAcquisition(tree))

\* what the corrector did: whether the legacy float comparison ran, whether a
\* warning was emitted, whether the correction branch was entered
Path(compared, warned, taken) ==
    [legacy_compared |-> compared, warned |-> warned, branch_taken |-> taken]
NoPath == Path(FALSE, FALSE, FALSE)

Fixed(r, path) == [err |-> r.err, val |-> r.val, path |-> path]

\* lines 148-171, given the parsed release
FixAfterVersion(tree, release, compared, warned) ==
    IF InOverVersion1(release) THEN Fixed(Ok(tree), Path(compared, warned, FALSE))
    ELSE IF Len(release) < 2
         THEN Fixed(Raise("IndexError", "tuple index out of range"),
                    Path(compared, warned, FALSE))
    ELSE IF LegacyMinorCondition(PyStr(release[2]))
         THEN Fixed(CorrectRates(tree), Path(compared, warned, TRUE))
    ELSE Fixed(Ok(tree), Path(compared, warned, FALSE))

\* lines 134-142 and on, given the decoded version string and its parse
FixWithVersion(tree, version, pv) ==
    IF pv.err # NoErr THEN Fixed(pv, NoPath)
    ELSE IF InOverVersion1(pv.val)
         THEN FixAfterVersion(tree, pv.val, FALSE, ReleaseGreater(pv.val, LatestRelease))
    ELSE IF PyFloatKind(version) # "number"
         THEN Fixed(Raise("ValueError", "could not convert string to float"),
                    Path(TRUE, FALSE, FALSE))
    ELSE FixAfterVersion(tree, pv.val, TRUE, FloatGreaterThanLatest(version))

\* parse_version('0.0').release
AbsentRelease == <<0, 0>>

fix_sampling_rate_for_older_versions(tree) ==
    IF "VersionString" \in DOMAIN tree.header
    THEN FixWithVersion(tree, tree.header["VersionString"],
                        parse_version(tree.header["VersionString"]))
    ELSE FixAfterVersion(tree, AbsentRelease, FALSE, FALSE)

\* get_metadata_dict: crawl, then correct; phase names where it raised
InPhase(v, phase) == [err |-> v.err, val |-> v.val, path |-> v.path, phase |-> phase]
CorrectCrawled(c) ==
    IF c.err # NoErr THEN InPhase(Fixed(c, NoPath), "crawl")
    ELSE InPhase(fix_sampling_rate_for_older_versions(c.val), "version")
get_metadata_dict(f) == CorrectCrawled(recursive_crawl_h5_group(f))

(***************************************************************************)
(* Scaling Coefficient Resolver: get_scaling_coefficients.                 *)
(* A scale array and a mask are sequences, one entry per channel; the      *)
(* coefficient matrix is a sequence of rows.                               *)
(***************************************************************************)
\* format_string.lower()
Lower(s) == IF s = "Raw" THEN "raw" ELSE s

\* d[k], raising KeyError(k) when the key is missing
GetKey(d, k) == IF k \in DOMAIN d THEN Ok(d[k]) ELSE Raise("KeyError", k)

\* lines 183-193: the analog input channel count
ChannelCount(header) ==
    IF "NAIChannels" \in DOMAIN header THEN Ok(header["NAIChannels"])
    ELSE LET acq == header["Acquisition"]
             all == IF "AnalogChannelScales" \in DOMAIN acq
                    THEN Ok(acq["AnalogChannelScales"])
                    ELSE GetKey(acq, "ChannelScales")
         IN  IF all.err # NoErr THEN all ELSE Ok(Len(all.val))

\* the same without the except clauses: the KeyError of the lookup escapes
NewerOrLegacyUncaught(header, newer, legacy, msg) ==
    IF newer \in DOMAIN header THEN Ok(header[newer])
    ELSE GetKey(header["Acquisition"], legacy)

\* the try blocks of lines 196-206, 207-218 and 222-230: the newer top-level
\* field, else the legacy nested one; a KeyError is raised again with msg
NewerOrLegacy(header, newer, legacy, msg) ==
    LET got == IF newer \in DOMAIN header THEN Ok(header[newer])
               ELSE GetKey(header["Acquisition"], legacy)
    IN  IF got.err.type = "KeyError" THEN Raise("KeyError", msg) ELSE got

\* a[mask] for a boolean mask: the entries whose mask entry is true
RECURSIVE MaskSelect(_, _)
MaskSelect(a, mask) ==
    IF Len(a) = 0 THEN <<>>
    ELSE (IF mask[1] # 0 THEN <<a[1]>> ELSE <<>>) \o MaskSelect(Tail(a), Tail(mask))
BoolIndex(a, mask) ==
    IF Len(a) # Len(mask) THEN Raise("IndexError", "boolean index did not match indexed array")
    ELSE Ok(MaskSelect(a, mask))

Resolved(scales, coefs, n) == [scales |-> scales, coefs |-> coefs, n |-> n]

\* lines 195-233, given the channel count
ResolveScales(header, format_string, n) ==
    IF Lower(format_string) # "raw" /\ n > 0 THEN
        LET all == NewerOrLegacy(header, "AIChannelScales", "AnalogChannelScales",
                                 "Unable to read channel scale information from file.")
            act == NewerOrLegacy(header, "IsAIChannelActive", "IsAnalogChannelActive",
                                 "Unable to read active/inactive channel information from file.")
            sel == BoolIndex(all.val, act.val)
            cf == NewerOrLegacy(header, "AIScalingCoefficients", "AnalogScalingCoefficients",
                                "Unable to read channel scaling coefficients from file.")
        IN  IF all.err # NoErr THEN all
            ELSE IF act.err # NoErr THEN act
            ELSE IF sel.err # NoErr THEN sel
            ELSE IF cf.err # NoErr THEN cf
            ELSE Ok(Resolved(sel.val, cf.val, n))
    ELSE Ok(Resolved(None, None, n))

ResolveWithCount(header, format_string, n) ==
    IF n.err # NoErr THEN n ELSE ResolveScales(header, format_string, n.val)
get_scaling_coefficients(tree, format_string) ==
    ResolveWithCount(tree.header, format_string, ChannelCount(tree.header))

(***************************************************************************)
(* Segment Orderer: get_ordered_sweep_names.                               *)
(***************************************************************************)
NodeNames(f) == [i \in 1..Len(f.nodes) |-> f.nodes[i].name]
IsSegmentName(name) == PySlice(name, 0, 5) \in {sweep, trial}

\* line 281: the names the container enumerates, filtered by prefix
FieldNames(f) == SelectSeq(NodeNames(f), IsSegmentName)

\* a list comprehension: the list of the values, or the first error raised
Collect(rs) ==
    IF \E i \in 1..Len(rs) : rs[i].err # NoErr
    THEN rs[CHOOSE i \in 1..Len(rs) :
                /\ rs[i].err # NoErr
                /\ \A j \in 1..(i - 1) : rs[j].err = NoErr]
    ELSE Ok([i \in 1..Len(rs) |-> rs[i].val])

\* line 282: [int(ele[6:]) for ele in field_names]
SweepNums(field_names) ==
    Collect([i \in 1..Len(field_names) |-> PyInt(PyTail(field_names[i], 6))])

\* line 283: [field_names[num - 1] for num in sweep_nums]
OrderedFieldNames(field_names, sweep_nums) ==
    IF sweep_nums.err # NoErr THEN sweep_nums
    ELSE Collect([i \in 1..Len(sweep_nums.val) |->
                     PyIndex(field_names, sweep_nums.val[i] - 1)])

OrderNames(field_names) == OrderedFieldNames(field_names, SweepNums(field_names))
get_ordered_sweep_names(f) == OrderNames(FieldNames(f))

(***************************************************************************)
(* Trace Accessor: get_traces.                                             *)
(***************************************************************************)
\* the names bound in get_traces when line 250 runs, and the module's globals
GetTracesLocals ==
    {"self", "segment_index", "start_frame", "end_frame", "return_scaled",
     "ordered_sweep_names"}
ModuleGlobals ==
    {"os", "math", "np", "h5py", "warnings", "parse_version", "SpecifierSet",
     "_latest_version", "_over_version_1", "__all__", "loadDataFile",
     "PyWaveSurferData", "scaled_double_analog_data_from_raw",
     "scaled_single_analog_data_from_raw"}
\* reading a name: a local, else a global, else NameError
NameBound(name) == name \in GetTracesLocals \cup ModuleGlobals

NodeNamed(f, name) == f.nodes[CHOOSE i \in 1..Len(f.nodes) : f.nodes[i].name = name]

\* dataset[:, start_frame:end_frame]: all channels, the frames of the window
\* clipped to the dataset, as counts of the named segment
RawWindow(f, sweep_name, start_frame, end_frame) ==
    LET node == NodeNamed(f, sweep_name)
    IN  [segment |-> sweep_name,
         channels |-> node.channels,
         first |-> Min(start_frame, node.samples),
         last |-> Max(Min(start_frame, node.samples), Min(end_frame, node.samples))]

\* scaled_double / scaled_single_analog_data_from_raw: the window, scaled
\* channel by channel with the resolved scales and coefficients
Scaled(precision, counts, channel_scales, scaling_coefficients) ==
    [precision |-> precision, counts |-> counts,
     channel_scales |-> channel_scales, scaling_coefficients |-> scaling_coefficients]

\* lines 258-275, given the counts read at lines 253-256
ScaleCounts(fmt, scales, coefs, n, counts, return_scaled) ==
    IF return_scaled /\ Lower(fmt) = "raw"
    THEN Raise("ValueError", "`return_scaled` cannot be `True` is `format_string` is 'raw'.")
    ELSE IF return_scaled /\ n > 0
         THEN IF Lower(fmt) = "single"
              THEN Ok(Scaled("single", counts, scales, coefs))
              ELSE Ok(Scaled("double", counts, scales, coefs))
    ELSE Ok(counts)

\* lines 252-275, once line 250 produced sweep_name
TracesOf(f, fmt, scales, coefs, n, sweep_name, start_frame, end_frame, return_scaled) ==
    IF sweep_name.err # NoErr THEN sweep_name
    ELSE ScaleCounts(fmt, scales, coefs, n,
                     RawWindow(f, sweep_name.val, start_frame, end_frame), return_scaled)

\* line 250 and on: the ordering was assigned to ordered_sweep_names, and
\* line 250 reads ordered_field_names
TracesFrom(ordered_sweep_names, f, fmt, scales, coefs, n, segment_index, start_frame, end_frame, return_scaled) ==
    IF ordered_sweep_names.err # NoErr THEN ordered_sweep_names
    ELSE IF ~NameBound("ordered_field_names")
         THEN Raise("NameError", "name 'ordered_field_names' is not defined")
    ELSE TracesOf(f, fmt, scales, coefs, n, PyIndex(ordered_sweep_names.val, segment_index),
                  start_frame, end_frame, return_scaled)

get_traces(f, fmt, scales, coefs, n, segment_index, start_frame, end_frame, return_scaled) ==
    TracesFrom(get_ordered_sweep_names(f), f, fmt, scales, coefs, n, segment_index,
               start_frame, end_frame, return_scaled)

(***************************************************************************)
(* Batch Loader: load_all_data.                                            *)
(***************************************************************************)
\* dataset.size: the number of elements
DatasetSize(node) == node.channels * node.samples

\* lines 295-307 for one enumerated name; idx is 0 throughout (line 292 sets
\* it and nothing in the loop changes it)
StoreTraces(acc, field_name, t) ==
    IF t.err # NoErr THEN t
    ELSE IF PySlice(field_name, 0, 5) = sweep
         THEN IF field_name \in DOMAIN acc.val.top
              THEN Ok([acc.val EXCEPT !.top[field_name] = Put(@, "analogScans", t.val)])
              ELSE Raise("KeyError", "field_name")
    ELSE Ok([acc.val EXCEPT !.top = Put(@, field_name, t.val)])

LoadItem(acc, f, fmt, scales, coefs, n, field_name) ==
    IF acc.err # NoErr THEN acc
    ELSE IF Len(field_name) >= 5 /\ IsSegmentName(field_name)
         THEN StoreTraces(acc, field_name,
                          get_traces(f, fmt, scales, coefs, n, 0, 0,
                                     DatasetSize(NodeNamed(f, field_name)), TRUE))
    ELSE acc

RECURSIVE LoadNames(_, _, _, _, _, _, _)
LoadNames(acc, f, fmt, scales, coefs, n, names) ==
    IF Len(names) = 0 THEN acc
    ELSE LoadNames(LoadItem(acc, f, fmt, scales, coefs, n, Head(names)),
                   f, fmt, scales, coefs, n, Tail(names))

load_all_data(tree, f, fmt, scales, coefs, n) ==
    LoadNames(Ok(tree), f, fmt, scales, coefs, n, NodeNames(f))

(***************************************************************************)
(* The container handle and the scoped-use protocol.                       *)
(***************************************************************************)
\* the public attributes of an h5py.File object
H5FileAttributes ==
    {"attrs", "close", "driver", "filename", "flush", "get", "id", "items",
     "keys", "libver", "mode", "name", "parent", "swmr_mode", "values"}

\* close_file, lines 57-59: reads the attribute "closed" of the handle and
\* calls it; only a false result reaches close()
close_file(h, n) ==
    IF "closed" \notin H5FileAttributes
    THEN [err |-> Err("AttributeError", "'File' object has no attribute 'closed'"),
          handle |-> h, releases |-> n]
    ELSE IF h = "open" THEN [err |-> NoErr, handle |-> "closed", releases |-> n + 1]
    ELSE [err |-> NoErr, handle |-> h, releases |-> n]

\* the parameters of __exit__ (line 67) and the arguments a with statement
\* passes to it
ExitParameters == <<"self">>
WithExitArguments == <<"self", "exc_type", "exc_value", "traceback">>

\* leaving a with-block: the call of __exit__, which calls close_file
with_exit(h, n) ==
    IF Len(WithExitArguments) # Len(ExitParameters)
    THEN [err |-> Err("TypeError", "__exit__() takes 1 positional argument but 4 were given"),
          handle |-> h, releases |-> n]
    ELSE close_file(h, n)

(***************************************************************************)
(* __init__, lines 40-55, after the path checks of lines 43-49 passed:     *)
(* open, crawl and correct, resolve.  No step of it closes the handle.     *)
(***************************************************************************)
NoTree == [header |-> EmptyDict, top |-> EmptyDict]

\* line 55, given the metadata of line 53
WithScaling(m, s) ==
    IF s.err # NoErr
    THEN [err |-> s.err, phase |-> "scaling", tree |-> m.val, path |-> m.path,
          scales |-> None, coefs |-> None, n |-> None, handle |-> "open"]
    ELSE [err |-> NoErr, phase |-> "done", tree |-> m.val, path |-> m.path,
          scales |-> s.val.scales, coefs |-> s.val.coefs, n |-> s.val.n,
          handle |-> "open"]

\* lines 53-55, given what get_metadata_dict returned or raised
WithMetadata(m, fmt) ==
    IF m.err # NoErr
    THEN [err |-> m.err, phase |-> m.phase, tree |-> NoTree, path |-> m.path,
          scales |-> None, coefs |-> None, n |-> None, handle |-> "open"]
    ELSE WithScaling(m, get_scaling_coefficients(m.val, fmt))

Constructed(f) == WithMetadata(get_metadata_dict(f), f.fmt)

Op(name, phase, return_scaled) ==
    [name |-> name, phase |-> phase, return_scaled |-> return_scaled]
Ret(kind, val) == [kind |-> kind, val |-> val]
NoRet == Ret("none", <<>>)

(***************************************************************************)
(* Actions: one per call a client can make.                                *)
(***************************************************************************)
\* PyWaveSurferData(filename, format_string)
Bind(c) ==
    /\ pc' = IF c.err = NoErr THEN "ready" ELSE "failed"
    /\ handle' = c.handle
    /\ data_file_as_dict' = c.tree
    /\ analog_channel_scales' = c.scales
    /\ analog_scaling_coefficients' = c.coefs
    /\ n_a_i_channels' = c.n
    /\ version_path' = c.path
    /\ op' = Op("__init__", c.phase, FALSE)
    /\ err' = c.err
    /\ ret' = NoRet

Construct ==
    /\ pc = "start"
    /\ Bind(Constructed(file))
    /\ UNCHANGED <<file, releases, in_with>>

\* reader.close_file()
Released(c) ==
    /\ handle' = c.handle
    /\ releases' = c.releases
    /\ err' = c.err

CloseFile ==
    /\ pc = "ready"
    /\ Released(close_file(handle, releases))
    /\ op' = Op("close_file", "", FALSE)
    /\ ret' = NoRet
    /\ UNCHANGED <<file, pc, in_with, data_file_as_dict, analog_channel_scales,
                   analog_scaling_coefficients, n_a_i_channels, version_path>>

\* "with reader:" entered: __enter__ returns self
WithEnter ==
    /\ pc = "ready"
    /\ ~in_with
    /\ in_with' = TRUE
    /\ op' = Op("__enter__", "", FALSE)
    /\ err' = NoErr
    /\ ret' = NoRet
    /\ UNCHANGED <<file, pc, handle, releases, data_file_as_dict, analog_channel_scales,
                   analog_scaling_coefficients, n_a_i_channels, version_path>>

\* the with-block is left
WithExit ==
    /\ pc = "ready"
    /\ in_with
    /\ in_with' = FALSE
    /\ Released(with_exit(handle, releases))
    /\ op' = Op("__exit__", "", FALSE)
    /\ ret' = NoRet
    /\ UNCHANGED <<file, pc, data_file_as_dict, analog_channel_scales,
                   analog_scaling_coefficients, n_a_i_channels, version_path>>

\* a read through a handle that is not open fails in the container library
Reading(r) == IF handle = "open" THEN r ELSE Raise("ValueError", "Invalid file")

\* the call returns r.val, of the given kind, or raises r.err
Returns(kind, r) ==
    /\ err' = r.err
    /\ ret' = IF r.err = NoErr THEN Ret(kind, r.val) ELSE NoRet

\* reader.get_ordered_sweep_names()
GetOrderedSweepNames ==
    /\ pc = "ready"
    /\ Returns("names", Reading(get_ordered_sweep_names(file)))
    /\ op' = Op("get_ordered_sweep_names", "", FALSE)
    /\ UNCHANGED <<file, pc, handle, releases, in_with, data_file_as_dict,
                   analog_channel_scales, analog_scaling_coefficients, n_a_i_channels,
                   version_path>>

\* the windows <<start_frame, end_frame>> asked for
Windows == {<<0, 2>>, <<2, 1>>}

\* reader.get_traces(segment_index, start_frame, end_frame, return_scaled)
GetTraces ==
    /\ pc = "ready"
    /\ \E segment_index \in (0 - 1)..MaxSeg, frames \in Windows, return_scaled \in BOOLEAN :
          /\ Returns("traces",
                     Reading(get_traces(file, file.fmt, analog_channel_scales,
                                        analog_scaling_coefficients, n_a_i_channels,
                                        segment_index, frames[1], frames[2], return_scaled)))
          /\ op' = Op("get_traces", "", return_scaled)
    /\ UNCHANGED <<file, pc, handle, releases, in_with, data_file_as_dict,
                   analog_channel_scales, analog_scaling_coefficients, n_a_i_channels,
                   version_path>>

Loaded(r) ==
    /\ Returns("tree", r)
    /\ data_file_as_dict' = IF r.err = NoErr THEN r.val ELSE data_file_as_dict

\* reader.load_all_data(): the tree is filled in place, and returned
LoadAllData ==
    /\ pc = "ready"
    /\ Loaded(Reading(load_all_data(data_file_as_dict, file, file.fmt, analog_channel_scales,
                                    analog_scaling_coefficients, n_a_i_channels)))
    /\ op' = Op("load_all_data", "", FALSE)
    /\ UNCHANGED <<file, pc, handle, releases, in_with, analog_channel_scales,
                   analog_scaling_coefficients, n_a_i_channels, version_path>>

\* reader.field_name_from_hdf_name(name) on a name of the container
FieldNameFromHdfName ==
    /\ pc = "ready"
    /\ \E i \in 1..Len(file.nodes) :
          Returns("field_name", field_name_from_hdf_name(file.nodes[i].name))
    /\ op' = Op("field_name_from_hdf_name", "", FALSE)
    /\ UNCHANGED <<file, pc, handle, releases, in_with, data_file_as_dict,
                   analog_channel_scales, analog_scaling_coefficients, n_a_i_channels,
                   version_path>>

\* loadDataFile(filename, format_string), lines 24-26: construct, enter, load,
\* leave the with-block, return; an error of the block is replaced by the
\* error of __exit__, and the reader is gone afterwards
\* lines 25-26: the block ran (r), the with statement was left (x)
LeftBlock(c, r, x) ==
    /\ handle' = x.handle
    /\ releases' = x.releases
    /\ data_file_as_dict' = IF r.err = NoErr THEN r.val ELSE c.tree
    /\ err' = IF x.err # NoErr THEN x.err ELSE r.err
    /\ ret' = IF x.err = NoErr /\ r.err = NoErr THEN Ret("tree", r.val) ELSE NoRet
    /\ op' = Op("loadDataFile", "done", FALSE)

Loading(c) ==
    /\ pc' = IF c.err = NoErr THEN "done" ELSE "failed"
    /\ version_path' = c.path
    /\ analog_channel_scales' = c.scales
    /\ analog_scaling_coefficients' = c.coefs
    /\ n_a_i_channels' = c.n
    /\ IF c.err # NoErr
       THEN /\ handle' = c.handle
            /\ releases' = releases
            /\ data_file_as_dict' = c.tree
            /\ err' = c.err
            /\ ret' = NoRet
            /\ op' = Op("loadDataFile", c.phase, FALSE)
       ELSE LeftBlock(c, load_all_data(c.tree, file, file.fmt, c.scales, c.coefs, c.n),
                      with_exit(c.handle, releases))

LoadDataFile ==
    /\ pc = "start"
    /\ Loading(Constructed(file))
    /\ UNCHANGED <<file, in_with>>

Next ==
    \/ Construct
    \/ CloseFile
    \/ WithEnter
    \/ WithExit
    \/ GetOrderedSweepNames
    \/ GetTraces
    \/ LoadAllData
    \/ FieldNameFromHdfName
    \/ LoadDataFile

(***************************************************************************)
(* The containers the reader is run on.                                    *)
(***************************************************************************)
SeqsUpTo(S, n) == UNION {[1..k -> S] : k \in 0..n}
SeqsFrom1(S, n) == UNION {[1..k -> S] : k \in 1..n}
Injective(q) == \A i, j \in 1..Len(q) : q[i] = q[j] => i = j

\* "sweep_0003": the prefix, an underscore, the index in four digits
Pad4(k) == <<Digits[((k \div 1000) % 10) + 1], Digits[((k \div 100) % 10) + 1],
             Digits[((k \div 10) % 10) + 1], Digits[(k % 10) + 1]>>
SegmentName(prefix, k) == prefix \o <<"_">> \o Pad4(k)

Node(name, kind, channels, samples) ==
    [name |-> name, kind |-> kind, channels |-> channels, samples |-> samples]
\* segment k: a sweep is a group, a trial a dataset; it declares k + 1 samples
SegmentNode(prefix, k) ==
    Node(SegmentName(prefix, k), IF prefix = sweep THEN "group" ELSE "dataset", 2, k + 1)
\* the segments of indices idx, in the order the container enumerates them
SegmentNodes(prefix, idx) == [i \in 1..Len(idx) |-> SegmentNode(prefix, idx[i])]

TopScaleKeys == {"NAIChannels", "AIChannelScales", "IsAIChannelActive", "AIScalingCoefficients"}
AcqScaleKeys == {"AnalogChannelScales", "ChannelScales", "IsAnalogChannelActive",
                 "AnalogScalingCoefficients"}
NewStyleKeys == TopScaleKeys
LegacyKeys == {"AnalogChannelScales", "IsAnalogChannelActive", "AnalogScalingCoefficients"}

\* channel i has scale i and the coefficient row <<0, i>>
AllScales(nCh) == [i \in 1..nCh |-> i]
AllRows(nCh) == [i \in 1..nCh |-> <<0, i>>]
\* the matrix as written: a row per channel, or a row per active channel
Rows(nCh, mask, layout) ==
    IF layout = "all" THEN AllRows(nCh) ELSE MaskSelect(AllRows(nCh), mask)

NoVersion == <<>>
MkAcquisition(acqHz, present, nCh, mask, layout) ==
    [k \in {"SampleRate"} \cup (present \cap AcqScaleKeys) |->
        CASE k = "SampleRate" -> Rate(acqHz)
          [] k = "AnalogChannelScales" -> AllScales(nCh)
          [] k = "ChannelScales" -> AllScales(nCh)
          [] k = "IsAnalogChannelActive" -> mask
          [] k = "AnalogScalingCoefficients" -> Rows(nCh, mask, layout)]
MkHeader(version, acqHz, stimHz, present, nCh, mask, layout) ==
    [k \in {"Acquisition", "Stimulation"} \cup (present \cap TopScaleKeys)
           \cup (IF version = NoVersion THEN {} ELSE {"VersionString"}) |->
        CASE k = "Acquisition" -> MkAcquisition(acqHz, present, nCh, mask, layout)
          [] k = "Stimulation" -> [j \in {"SampleRate"} |-> Rate(stimHz)]
          [] k = "VersionString" -> version
          [] k = "NAIChannels" -> nCh
          [] k = "AIChannelScales" -> AllScales(nCh)
          [] k = "IsAIChannelActive" -> mask
          [] k = "AIScalingCoefficients" -> Rows(nCh, mask, layout)]

MkFile(fmt, nodes, header) == [fmt |-> fmt, nodes |-> nodes, header |-> header]

Formats == {"double", "single", "raw", "Raw"}
V(major, minor) == major \o <<".">> \o minor
\* a current file: version 1.0.5, two channels of which the first is active
V105 == <<"1", ".", "0", ".", "5">>
V0912 == <<"0", ".", "9", "1", "2">>
DefaultHeader == MkHeader(V105, 20000, 20000, NewStyleKeys, 2, <<1, 0>>, "active")
DefaultNodes == SegmentNodes(sweep, <<1, 2>>)

InitReader ==
    /\ pc = "start"
    /\ handle = "none"
    /\ releases = 0
    /\ in_with = FALSE
    /\ data_file_as_dict = NoTree
    /\ analog_channel_scales = None
    /\ analog_scaling_coefficients = None
    /\ n_a_i_channels = None
    /\ version_path = NoPath
    /\ op = Op("", "", FALSE)
    /\ err = NoErr
    /\ ret = NoRet

(***************************************************************************)
(* Spec: segments in every enumeration order, every format, and headers    *)
(* on which each construction phase succeeds or raises.                    *)
(***************************************************************************)
SegmentOrders == {q \in SeqsUpTo(0..MaxSeg, MaxSeg) : Injective(q)}
ExtraNodes == {<<>>, <<Node(Inf, "group", 0, 0)>>}
LifecycleHeaders ==
    {DefaultHeader,
     MkHeader(V0912, 60000, 60000, LegacyKeys, 2, <<1, 1>>, "active"),
     MkHeader(V0912, 300000000, 20000, LegacyKeys, 2, <<1, 1>>, "active"),
     MkHeader(V105, 20000, 20000, {"NAIChannels"}, 2, <<1, 1>>, "active")}

Init ==
    /\ InitReader
    /\ \E fmt \in Formats, prefix \in {sweep, trial}, idx \in SegmentOrders,
          extra \in ExtraNodes, header \in LifecycleHeaders :
          file = MkFile(fmt, SegmentNodes(prefix, idx) \o extra, header)

Spec == Init /\ [][Next]_vars

(***************************************************************************)
(* SpecNames: one node of every name over NameChars, of every kind.        *)
(***************************************************************************)
NameChars == {"0", "1", ".", "a", "i", "n", "f"}
FreeNames == SeqsFrom1(NameChars, MaxNameLen)

InitNames ==
    /\ InitReader
    /\ \E name \in FreeNames, kind \in {"group", "dataset", "other"} :
          file = MkFile("double", <<Node(name, kind, 0, 0)>>, DefaultHeader)

SpecNames == InitNames /\ [][Next]_vars

(***************************************************************************)
(* SpecVersion: every version string of one to three components over       *)
(* VersionDigits at a rate of 60 kHz, and the versions of RateVersions at  *)
(* rates with integer and non-integer ticks per sample.                    *)
(***************************************************************************)
VersionDigits == {"0", "1", "2", "3", "8", "9"}
Majors == {<<"0">>, <<"1">>}
Minors == SeqsFrom1(VersionDigits, MaxMinorLen)
VersionStrings ==
    {NoVersion} \cup Majors
    \cup {V(m, n) : m \in Majors, n \in Minors}
    \cup {V(m, <<d>>) \o <<".", "5">> : m \in Majors, d \in VersionDigits}
\* ticks per sample: 5000, 1666.67, 3333.33, 195312.5, 1, 0.67 and 0.33
SampleRates == {20000, 60000, 30000, 512, 100000000, 150000000, 300000000}
RateVersions == {NoVersion, V0912, V(<<"0">>, <<"9", "1", "3">>), V(<<"0">>, <<"8">>), V105}
VersionedFile(version, acqHz, stimHz) ==
    MkFile("double", DefaultNodes,
           MkHeader(version, acqHz, stimHz, NewStyleKeys, 2, <<1, 0>>, "active"))

InitVersion ==
    /\ InitReader
    /\ \/ \E version \in VersionStrings : file = VersionedFile(version, 60000, 60000)
       \/ \E version \in RateVersions, acqHz \in SampleRates, stimHz \in SampleRates :
             file = VersionedFile(version, acqHz, stimHz)

SpecVersion == InitVersion /\ [][Next]_vars

(***************************************************************************)
(* SpecScales: every subset of the scale fields, every mask, both layouts  *)
(* of the coefficient matrix.                                              *)
(***************************************************************************)
Masks == UNION {[1..k -> {0, 1}] : k \in 0..MaxChannels}

InitScales ==
    /\ InitReader
    /\ \E fmt \in {"double", "raw"}, present \in SUBSET (TopScaleKeys \cup AcqScaleKeys),
          mask \in Masks, layout \in {"all", "active"} :
          file = MkFile(fmt, DefaultNodes,
                        MkHeader(V105, 20000, 20000, present, Len(mask), mask, layout))

SpecScales == InitScales /\ [][Next]_vars

(***************************************************************************)
(* Properties.                                                             *)
(***************************************************************************)
AfterConstruction == op.name \in {"__init__", "loadDataFile"}
NotRaw == Lower(file.fmt) # "raw"

\* the indices written in the segment names, in enumeration order
SegmentIndices == [i \in 1..Len(FieldNames(file)) |-> DigitsValue(PyTail(FieldNames(file)[i], 6))]
\* they are a permutation of 1..N
DenseIndices ==
    /\ \A i \in 1..Len(SegmentIndices) : SegmentIndices[i] \in 1..Len(SegmentIndices)
    /\ Injective(SegmentIndices)

\* C1: the handle the constructor opened is released exactly once on every
\* exit path: after close_file(), after a with-block is left (the one of
\* loadDataFile included), and when a construction phase raises.
HandleReleasedOnEveryExit ==
    /\ (op.name = "close_file" => err = NoErr /\ handle = "closed" /\ releases = 1)
    /\ (op.name = "__exit__" => handle = "closed" /\ releases = 1)
    /\ (op.name = "loadDataFile" => handle = "closed" /\ releases = 1)
    /\ (pc = "failed" => handle = "closed" /\ releases = 1)

\* the scaled traces of the whole of one segment
PrecisionOf(fmt) == IF Lower(fmt) = "single" THEN "single" ELSE "double"
SegmentTraces(name) ==
    Scaled(PrecisionOf(file.fmt),
           [segment |-> name, channels |-> NodeNamed(file, name).channels,
            first |-> 0, last |-> NodeNamed(file, name).samples],
           analog_channel_scales, analog_scaling_coefficients)
\* what a tree holds under a segment's key
SegmentEntry(tree, name) ==
    IF name \notin DOMAIN tree.top THEN None
    ELSE IF PySlice(name, 0, 5) = sweep
         THEN (IF "analogScans" \in DOMAIN tree.top[name]
               THEN tree.top[name]["analogScans"] ELSE None)
    ELSE tree.top[name]

\* C2: load_all_data returns the tree in which every segment's key holds
\* the scaled traces of that same segment, channels x its declared samples.
EverySegmentLoaded ==
    (op.name = "load_all_data" /\ NotRaw /\ DenseIndices) =>
        /\ err = NoErr
        /\ ret.kind = "tree"
        /\ \A i \in 1..Len(FieldNames(file)) :
              SegmentEntry(ret.val, FieldNames(file)[i]) = SegmentTraces(FieldNames(file)[i])

\* C3: when the indices are a permutation of 1..N, in any enumeration
\* order, get_ordered_sweep_names returns the segment of index k at
\* position k - 1.
OrderedByIndex ==
    (op.name = "get_ordered_sweep_names" /\ DenseIndices) =>
        /\ err = NoErr
        /\ ret.kind = "names"
        /\ Len(ret.val) = Len(SegmentIndices)
        /\ \A k \in 1..Len(ret.val) : DigitsValue(PyTail(ret.val[k], 6)) = k

\* C4: when the indices are not a permutation of 1..N,
\* get_ordered_sweep_names raises an index error and returns nothing.
NonDenseRaisesIndexError ==
    (op.name = "get_ordered_sweep_names" /\ ~DenseIndices) =>
        /\ err.type = "IndexError"
        /\ ret = NoRet

\* C5: field_name_from_hdf_name returns "n" + name for a name that parses
\* as an integer-valued number, the name itself for one that does not parse
\* as a number, and raises for a number that is not an integer; no key of
\* the crawled tree is a number.
NumericNamesPrefixed ==
    /\ op.name = "field_name_from_hdf_name" =>
          LET name == file.nodes[1].name
          IN  IF PyFloatKind(name) = "ValueError"
              THEN err = NoErr /\ ret.val = name
              ELSE IF PyFloatKind(name) = "number" /\ IsIntegerValued(name)
              THEN err = NoErr /\ ret.val = <<"n">> \o name
              ELSE IF PyFloatKind(name) = "number"
              THEN err.type = "RuntimeError"
              ELSE TRUE
    /\ pc = "ready" =>
          \A k \in DOMAIN data_file_as_dict.top : PyFloatKind(k) # "number"

\* the mask the resolver reads
ActiveMask ==
    IF "IsAIChannelActive" \in DOMAIN file.header
    THEN file.header["IsAIChannelActive"]
    ELSE file.header["Acquisition"]["IsAnalogChannelActive"]
ActiveCount == Cardinality({i \in 1..Len(ActiveMask) : ActiveMask[i] # 0})

\* C6: after the resolver ran with a format other than raw and a channel
\* count above 0, len(channel_scales) = number of active channels = rows of
\* the coefficient matrix, for every mask.
ScalesPairedWithCoefficients ==
    (pc = "ready" /\ op.name = "__init__" /\ NotRaw /\ n_a_i_channels > 0) =>
        /\ Len(analog_channel_scales) = ActiveCount
        /\ Len(analog_scaling_coefficients) = ActiveCount

\* the version of the file: its release components, "0.0" when absent
FileRelease ==
    IF "VersionString" \in DOMAIN file.header
    THEN [i \in 1..Len(SplitDots(file.header["VersionString"])) |->
             DigitsValue(SplitDots(file.header["VersionString"])[i])]
    ELSE <<0, 0>>
FileMajor == FileRelease[1]
FileMinor == IF Len(FileRelease) >= 2 THEN FileRelease[2] ELSE 0
\* the corrector reached the decision of line 148 and, below 1.0, of line 151
BranchDecided ==
    /\ AfterConstruction
    /\ op.phase \in {"scaling", "done"} \/ version_path.branch_taken

\* the rule as the claim words it, on the number minor
MinorRuleAsClaimed(m) ==
    \/ m < 9
    \/ (m \div 10) % 10 < 1
    \/ ((m \div 10) % 10 <= 1 /\ m % 10 <= 2)

\* C7 as claimed: the branch is taken exactly when the version is below 1.0
\* and minor < 9, or its tens digit < 1, or (tens digit <= 1 and next
\* digit <= 2).
BranchTakenAsClaimed ==
    BranchDecided =>
        (version_path.branch_taken <=> (FileMajor < 1 /\ MinorRuleAsClaimed(FileMinor)))

\* the digits of m, counted from the leading one
NumDigits(m) == IF m < 10 THEN 1 ELSE IF m < 100 THEN 2 ELSE IF m < 1000 THEN 3
                ELSE IF m < 10000 THEN 4 ELSE 5
DigitFromLeft(m, i) == (m \div Pow10(NumDigits(m) - i)) % 10
MinorRuleByDigits(m) ==
    \/ DigitFromLeft(m, 1) < 9
    \/ (NumDigits(m) >= 2 /\ DigitFromLeft(m, 2) < 1)
    \/ (NumDigits(m) >= 3 /\ DigitFromLeft(m, 2) <= 1 /\ DigitFromLeft(m, 3) <= 2)

\* C7, amended: for an absent version, a version from 1.0 on, or a version
\* "0.minor" of two numeric components (the versions at which the corrector
\* reaches its decision instead of raising at line 140 or 149), the branch is taken
\* exactly when the version is below 1.0 and the decimal digits of minor,
\* from the leading one, satisfy: first < 9, or second (if any) < 1, or
\* second <= 1 and third (if any) <= 2; from 1.0 on neither the branch nor
\* the legacy float comparison happens.
BranchTakenByLeadingDigits ==
    BranchDecided =>
        /\ version_path.branch_taken <=> (FileMajor < 1 /\ MinorRuleByDigits(FileMinor))
        /\ FileMajor >= 1 => ~version_path.branch_taken /\ ~version_path.legacy_compared

\* C7 witness: version 0.912 was read and the branch was taken
Branch0912Taken ==
    /\ op.name = "__init__"
    /\ "VersionString" \in DOMAIN file.header
    /\ file.header["VersionString"] = V0912
    /\ version_path.branch_taken

NoScaleField ==
    /\ "AIChannelScales" \notin DOMAIN file.header
    /\ "AnalogChannelScales" \notin DOMAIN file.header["Acquisition"]
\* the messages that name the channel scales
ChannelScaleMessages ==
    {"Unable to read channel scale information from file.", "ChannelScales",
     "AnalogChannelScales"}

\* C8 as claimed: with a format other than raw and neither channel-scale
\* field, construction fails with a lookup error naming the channel scales.
MissingScalesAlwaysRaise ==
    (op.name = "__init__" /\ NotRaw /\ NoScaleField) =>
        /\ pc = "failed"
        /\ err.type = "KeyError"
        /\ err.msg \in ChannelScaleMessages

\* the channel count the file gives: the count field, else the size of the
\* oldest scale array (the only one left when NoScaleField), else none
GivenCount ==
    IF "NAIChannels" \in DOMAIN file.header THEN file.header["NAIChannels"]
    ELSE IF "ChannelScales" \in DOMAIN file.header["Acquisition"]
         THEN Len(file.header["Acquisition"]["ChannelScales"])
    ELSE 0 - 1

\* C8, amended: when the resolver runs with a format other than raw, a
\* channel count above 0 (from the count field or from a scale array) and
\* neither channel-scale field, construction fails in the resolver with
\* KeyError("Unable to read channel scale information from file.").
MissingScalesRaiseWithChannels ==
    (op.name = "__init__" /\ NotRaw /\ NoScaleField /\ GivenCount > 0) =>
        /\ pc = "failed"
        /\ op.phase = "scaling"
        /\ err = Err("KeyError", "Unable to read channel scale information from file.")

\* C8 witness: the count was derived from a scale array and the error raised
MissingScalesRaisedOnDerivedCount ==
    /\ op.name = "__init__"
    /\ NotRaw
    /\ NoScaleField
    /\ "NAIChannels" \notin DOMAIN file.header
    /\ GivenCount > 0
    /\ err = Err("KeyError", "Unable to read channel scale information from file.")

\* C9: on a reader of format raw, get_traces with return_scaled=True always
\* fails with the validation error, whatever the other arguments.
RawScaledFailsValidation ==
    (op.name = "get_traces" /\ op.return_scaled /\ ~NotRaw) =>
        /\ err = Err("ValueError", "`return_scaled` cannot be `True` is `format_string` is 'raw'.")
        /\ ret = NoRet

\* the nominal rates of the file, in Hz
NominalAcq == file.header["Acquisition"]["SampleRate"].num
NominalStim == file.header["Stimulation"]["SampleRate"].num
\* the integer nearest to 100,000,000 / r, the even one of two equally near
Distance(n, r) == IF TimebaseHz >= n * r THEN TimebaseHz - n * r ELSE n * r - TimebaseHz
NearestTicks(r) ==
    CHOOSE n \in {TimebaseHz \div r, (TimebaseHz \div r) + 1} :
        \A o \in {TimebaseHz \div r, (TimebaseHz \div r) + 1} :
            \/ o = n
            \/ Distance(n, r) < Distance(o, r)
            \/ (Distance(n, r) = Distance(o, r) /\ n % 2 = 0)
\* the rate the claim gives for the nominal rate r
ClaimedAcq(r) ==
    IF TimebaseHz % r = 0 THEN Rate(r) ELSE [num |-> TimebaseHz, den |-> TimebaseHz \div r]
ClaimedStim(r) ==
    IF TimebaseHz % r = 0 THEN Rate(r) ELSE [num |-> TimebaseHz, den |-> NearestTicks(r)]
\* the crawled tree with the two rates as claimed and nothing else changed
ClaimedTree ==
    [recursive_crawl_h5_group(file).val EXCEPT
        !.header["Acquisition"]["SampleRate"] = ClaimedAcq(NominalAcq),
        !.header["Stimulation"]["SampleRate"] = ClaimedStim(NominalStim)]

\* C10 as claimed: when the branch is taken, for every nominal rate the
\* field is unchanged if 100,000,000 / r is an integer, else the acquisition
\* rate becomes 100,000,000 / floor(ticks) and the stimulation rate
\* 100,000,000 / round(ticks), and nothing else changes.
RatesCorrectedForEveryRate ==
    (op.name = "__init__" /\ version_path.branch_taken) =>
        /\ op.phase \in {"scaling", "done"}
        /\ data_file_as_dict = ClaimedTree

\* C10, amended: the same for every pair of nominal rates r with
\* 1 <= r <= 100,000,000, the rates at which 1 <= ticks <= 100,000,000.
RatesCorrectedUpToTimebase ==
    (/\ op.name = "__init__"
     /\ version_path.branch_taken
     /\ NominalAcq \in 1..TimebaseHz
     /\ NominalStim \in 1..TimebaseHz) =>
        /\ op.phase \in {"scaling", "done"}
        /\ data_file_as_dict = ClaimedTree

\* C10 witness: at 60 kHz (1666.67 ticks) the acquisition rate was floored
\* and the stimulation rate rounded
RatesFlooredAndRounded ==
    /\ op.name = "__init__"
    /\ version_path.branch_taken
    /\ NominalAcq = 60000
    /\ NominalStim = 60000
    /\ data_file_as_dict.header["Acquisition"]["SampleRate"] = [num |-> TimebaseHz, den |-> 1666]
    /\ data_file_as_dict.header["Stimulation"]["SampleRate"] = [num |-> TimebaseHz, den |-> 1667]

====
